---- MODULE Spec2Model ----
(***************************************************************************)
(* Mock banking agent: an orchestrator (orquestador) and four keyword      *)
(* responders (micro_consultas, micro_cuentas, micro_identidad, micro_ia). *)
(* Texts are TLA+ strings; Python's `in`, str.lower() and _normalize are   *)
(* computed character by character.                                        *)
(***************************************************************************)
EXTENDS Integers, Sequences, FiniteSets, TLC

VARIABLES MICROS, pc, request, response, reenvios, recibido, ejecutado,
          middleware, access_token, memoria

\* tests/demo.py: the environment of generar_tests, its position and what it
\* has done.
VARIABLES OPENAI_API_KEY, arbol, fase, archivos_fuente, procesados, llamadas,
          escritos, reportes

\* tests/conftest.py: the streams of sys, the locals of the log_test_info
\* fixture, its position, and the tests run.
VARIABLES sys_stdout, sys_stderr, old_stdout, old_stderr, fixture, rep_call,
          registro, terminadas, al_empezar

vars_servicios == <<MICROS, pc, request, response, reenvios, recibido, ejecutado,
                    middleware, access_token, memoria>>

vars_gen == <<OPENAI_API_KEY, arbol, fase, archivos_fuente, procesados, llamadas,
              escritos, reportes>>

vars_log == <<sys_stdout, sys_stderr, old_stdout, old_stderr, fixture, rep_call,
              registro, terminadas, al_empezar>>

vars == <<vars_servicios, vars_gen, vars_log>>

(***************************************************************************)
(* Python string primitives                                                *)
(***************************************************************************)

\* Python `k in t` on str: k is a contiguous substring of t.
Contains(k, t) ==
    \E i \in 1..(Len(t) - Len(k) + 1) : SubSeq(t, i, i + Len(k) - 1) = k

\* any(p in texto for p in palabras)
AnyIn(palabras, texto) == \E p \in palabras : Contains(p, texto)

\* str.startswith taken as equality of the whole path.
StartsWith_exacto(t, r) == t = r

\* str.startswith
StartsWith(t, r) == Len(t) >= Len(r) /\ SubSeq(t, 1, Len(r)) = r

\* The lowercase form of each cased character of the alphabet the questions
\* are written in; every other character is its own lowercase form.
Minuscula ==
    ("A" :> "a") @@ ("B" :> "b") @@ ("C" :> "c") @@ ("D" :> "d") @@ ("E" :> "e") @@ ("F" :> "f") @@
    ("G" :> "g") @@ ("H" :> "h") @@ ("I" :> "i") @@ ("J" :> "j") @@ ("K" :> "k") @@ ("L" :> "l") @@
    ("M" :> "m") @@ ("N" :> "n") @@ ("O" :> "o") @@ ("P" :> "p") @@ ("Q" :> "q") @@ ("R" :> "r") @@
    ("S" :> "s") @@ ("T" :> "t") @@ ("U" :> "u") @@ ("V" :> "v") @@ ("W" :> "w") @@ ("X" :> "x") @@
    ("Y" :> "y") @@ ("Z" :> "z") @@ ("Á" :> "á") @@ ("É" :> "é") @@ ("Í" :> "í") @@ ("Ó" :> "ó") @@
    ("Ú" :> "ú") @@ ("Ñ" :> "ñ") @@ ("Ü" :> "ü")

\* Lowercasing of the unaccented letters only.
LowerCh_ascii(c) ==
    IF c \in DOMAIN Minuscula /\ c \notin {"Á", "É", "Í", "Ó", "Ú", "Ñ", "Ü"} THEN Minuscula[c] ELSE c

LowerCh(c) == IF c \in DOMAIN Minuscula THEN Minuscula[c] ELSE c

\* str.lower()
RECURSIVE lower(_)
lower(s) == IF s = "" THEN "" ELSE LowerCh(Head(s)) \o lower(Tail(s))

\* unicodedata.normalize("NFD", .): a precomposed letter becomes its base
\* letter followed by its combining mark.  The combining marks U+0301,
\* U+0303 and U+0308 (category Mn) are written ´ ~ ¨ .
Descomposicion ==
    ("á" :> "a´") @@ ("é" :> "e´") @@ ("í" :> "i´") @@ ("ó" :> "o´") @@ ("ú" :> "u´") @@ ("ñ" :> "n~") @@
    ("ü" :> "u¨") @@ ("Á" :> "A´") @@ ("É" :> "E´") @@ ("Í" :> "I´") @@ ("Ó" :> "O´") @@ ("Ú" :> "U´") @@
    ("Ñ" :> "N~") @@ ("Ü" :> "U¨")

Mn == {"´", "~", "¨"}

NFDCh(c) == IF c \in DOMAIN Descomposicion THEN Descomposicion[c] ELSE c

RECURSIVE NFD(_)
NFD(s) == IF s = "" THEN "" ELSE NFDCh(Head(s)) \o NFD(Tail(s))

\* "".join(ch for ch in text if unicodedata.category(ch) != "Mn")
RECURSIVE SinMn(_)
SinMn(s) == IF s = "" THEN ""
            ELSE (IF Head(s) \in Mn THEN "" ELSE Head(s)) \o SinMn(Tail(s))

\* _normalize without the NFD decomposition: only marks that are already
\* separate characters are dropped.
normalize_sin_nfd(text) == SinMn(lower(text))

\* micro_cuentas _normalize
normalize(text) == SinMn(NFD(lower(text)))

\* str.split(sep) for a one-character separator.
RECURSIVE SplitAcc(_, _, _)
SplitAcc(s, sep, actual) ==
    IF s = "" THEN <<actual>>
    ELSE IF Head(s) = sep THEN <<actual>> \o SplitAcc(Tail(s), sep, "")
    ELSE SplitAcc(Tail(s), sep, actual \o Head(s))

Split(s, sep) == SplitAcc(s, sep, "")

(***************************************************************************)
(* Services, token and middleware                                          *)
(***************************************************************************)

Responders == {"consultas", "cuentas", "identidad", "ia"}
Servicios  == {"orquestador"} \cup Responders

VALID_TOKEN == "secreto123"

\* rutas_publicas without "/token".
rutas_publicas_sin_token == {"/docs", "/openapi.json"}

rutas_publicas == {"/token", "/docs", "/openapi.json"}

\* validar_token testing only that the header is present and not empty.
validar_token_solo_presencia(ruta, auth) ==
    IF \E r \in rutas_publicas : StartsWith(ruta, r) THEN "next"
    ELSE IF auth = <<>> \/ auth[1] = "" THEN "raise401" ELSE "next"

\* A request's Authorization header: <<>> when absent, <<v>> when present.
\* validar_token: "next" when the request is handed to call_next, "raise401"
\* when the middleware raises HTTPException(status_code=401).
validar_token(ruta, auth) ==
    IF \E r \in rutas_publicas : StartsWith(ruta, r) THEN "next"
    ELSE IF auth = <<>> \/ auth[1] = "" \/ auth[1] # ("Bearer " \o VALID_TOKEN)
         THEN "raise401"
         ELSE "next"

(***************************************************************************)
(* Responders: POST /respuesta                                             *)
(***************************************************************************)

\* responder_consultas with the extracto branch tested before the saldo branch.
responder_consultas_extracto_primero(pregunta) ==
    LET texto == lower(pregunta) IN
    IF AnyIn({"movimiento", "compra", "comprado", "últimamente"}, texto)
    THEN "Tu último movimiento fue una compra de 35€ en Amazon."
    ELSE IF Contains("extracto", texto)
    THEN "Tu extracto de abril incluye 18 movimientos por un total de 1.052€."
    ELSE IF Contains("saldo", texto)
    THEN "Tu saldo actual es de 1.275,45€."
    ELSE IF AnyIn({"recibo", "luz", "agua", "internet"}, texto)
    THEN "Tu último recibo de internet fue de 44,90€ y se cargó el día 3 de este mes."
    ELSE IF Contains("iban", texto)
    THEN "Tu IBAN es ES6600190020961234567890."
    ELSE IF AnyIn({"cajero", "oficina", "localizar"}, texto)
    THEN "Puedes encontrar la oficina o cajero más cercano en nuestra app, sección 'Dónde estamos'."
    ELSE IF AnyIn({"ingreso", "entrada de dinero"}, texto)
    THEN "Recibiste un ingreso de 1.200€ el pasado 27 de abril."
    ELSE IF AnyIn({"límite", "tarjeta"}, texto)
    THEN "El límite de tu tarjeta actual es de 2.000€ mensuales."
    ELSE IF AnyIn({"divisa", "cambio"}, texto)
    THEN "El tipo de cambio actual EUR/USD es 1,09."
    ELSE IF AnyIn({"último acceso", "seguridad"}, texto)
    THEN "Tu último acceso fue el 2 de mayo a las 17:42 desde la app móvil."
    ELSE "No tengo información suficiente para responder a tu consulta específica."

\* micro_consultas responder
responder_consultas(pregunta) ==
    LET texto == lower(pregunta) IN
    IF AnyIn({"movimiento", "compra", "comprado", "últimamente"}, texto)
    THEN "Tu último movimiento fue una compra de 35€ en Amazon."
    ELSE IF Contains("saldo", texto)
    THEN "Tu saldo actual es de 1.275,45€."
    ELSE IF Contains("extracto", texto)
    THEN "Tu extracto de abril incluye 18 movimientos por un total de 1.052€."
    ELSE IF AnyIn({"recibo", "luz", "agua", "internet"}, texto)
    THEN "Tu último recibo de internet fue de 44,90€ y se cargó el día 3 de este mes."
    ELSE IF Contains("iban", texto)
    THEN "Tu IBAN es ES6600190020961234567890."
    ELSE IF AnyIn({"cajero", "oficina", "localizar"}, texto)
    THEN "Puedes encontrar la oficina o cajero más cercano en nuestra app, sección 'Dónde estamos'."
    ELSE IF AnyIn({"ingreso", "entrada de dinero"}, texto)
    THEN "Recibiste un ingreso de 1.200€ el pasado 27 de abril."
    ELSE IF AnyIn({"límite", "tarjeta"}, texto)
    THEN "El límite de tu tarjeta actual es de 2.000€ mensuales."
    ELSE IF AnyIn({"divisa", "cambio"}, texto)
    THEN "El tipo de cambio actual EUR/USD es 1,09."
    ELSE IF AnyIn({"último acceso", "seguridad"}, texto)
    THEN "Tu último acceso fue el 2 de mayo a las 17:42 desde la app móvil."
    ELSE "No tengo información suficiente para responder a tu consulta específica."

\* micro_cuentas responder
responder_cuentas(pregunta) ==
    LET texto == normalize(pregunta) IN
    IF Contains("IBAN", texto) /\ Contains("cuenta", texto)
    THEN "Tu cuenta ha sido abierta correctamente con IBAN ES6600190020961234567890."
    ELSE IF Contains("tipo de cuenta", texto) \/ Contains("tipos de cuenta", texto)
    THEN "Ofrecemos cuentas corrientes, cuentas nómina y cuentas de ahorro sin comisiones de mantenimiento."
    ELSE IF \/ Contains("requisito", texto) \/ Contains("requisitos", texto)
            \/ Contains("condicion", texto) \/ Contains("condiciones", texto)
    THEN "Para abrir una cuenta necesitas ser mayor de edad, presentar DNI y un justificante de domicilio."
    ELSE IF Contains("comision", texto) \/ Contains("comisiones", texto)
    THEN "Las cuentas estándar no tienen comisiones."
    ELSE IF \/ (Contains("cambiar", texto) /\ Contains("cuenta", texto))
            \/ (Contains("convertir", texto) /\ Contains("cuenta", texto))
    THEN "Podemos ayudarte a convertir tu cuenta actual en una cuenta nómina si cumples las condiciones."
    ELSE IF Contains("plazo", texto) \/ Contains("apertura", texto)
    THEN "El proceso de apertura es inmediato si se hace online. En oficina puede tardar 24-48h."
    ELSE "No he encontrado información sobre eso. ¿Quieres saber cómo abrir una cuenta o los requisitos?"

\* responder_identidad with the sms branch tested before the dni branch.
responder_identidad_sms_primero(pregunta) ==
    LET texto == lower(pregunta) IN
    IF Contains("sms", texto) \/ Contains("código", texto) \/ Contains("llamada", texto)
    THEN "Código verificado correctamente. Tu sesión es segura."
    ELSE IF Contains("dni", texto) \/ Contains("nie", texto)
    THEN "Tu documento ha sido validado correctamente. Coincide con nuestros registros."
    ELSE IF Contains("correo", texto) \/ Contains("email", texto)
    THEN "Tu correo ha sido confirmado. Ya puedes continuar con tu operación."
    ELSE IF Contains("dos factores", texto) \/ Contains("2fa", texto)
    THEN "Autenticación en dos pasos completada correctamente."
    ELSE IF Contains("verificar identidad", texto) \/ Contains("identidad", texto)
    THEN "Identidad verificada con éxito para el usuario Juan Pérez."
    ELSE "No se ha podido determinar el tipo de verificación. Por favor, especifica el método (DNI, SMS, correo...)."

\* micro_identidad responder
responder_identidad(pregunta) ==
    LET texto == lower(pregunta) IN
    IF Contains("dni", texto) \/ Contains("nie", texto)
    THEN "Tu documento ha sido validado correctamente. Coincide con nuestros registros."
    ELSE IF Contains("sms", texto) \/ Contains("código", texto) \/ Contains("llamada", texto)
    THEN "Código verificado correctamente. Tu sesión es segura."
    ELSE IF Contains("correo", texto) \/ Contains("email", texto)
    THEN "Tu correo ha sido confirmado. Ya puedes continuar con tu operación."
    ELSE IF Contains("dos factores", texto) \/ Contains("2fa", texto)
    THEN "Autenticación en dos pasos completada correctamente."
    ELSE IF Contains("verificar identidad", texto) \/ Contains("identidad", texto)
    THEN "Identidad verificada con éxito para el usuario Juan Pérez."
    ELSE "No se ha podido determinar el tipo de verificación. Por favor, especifica el método (DNI, SMS, correo...)."

\* RESPUESTAS_IA with the tarjeta item inserted before the hipoteca item.
RESPUESTAS_IA_tarjeta_primero == <<
    <<"tarjeta", "Puedes solicitar una tarjeta desde la app o acudiendo a una oficina.">>,
    <<"hipoteca", "Actualmente el tipo de interés para hipotecas es del 3,2%.">>,
    <<"transferencia", "Una transferencia nacional tarda aproximadamente 24h hábiles.">>,
    <<"comisión", "La comisión de mantenimiento es de 10€ trimestrales, pero puede eliminarse cumpliendo ciertos requisitos.">>,
    <<"oficina", "Nuestro horario de atención en oficinas es de lunes a viernes de 8:30 a 14:00.">>,
    <<"certificado", "Puedes descargar tu certificado de titularidad bancaria desde la app o el área de cliente web.">>,
    <<"préstamo", "Ofrecemos préstamos personales desde un 5,5% TIN con aprobación rápida online.">>,
    <<"inversión", "Contamos con planes de inversión adaptados a tu perfil de riesgo, consulta con tu asesor.">> >>

\* micro_ia RESPUESTAS_IA: the dict's items in insertion order.
RESPUESTAS_IA == <<
    <<"hipoteca", "Actualmente el tipo de interés para hipotecas es del 3,2%.">>,
    <<"tarjeta", "Puedes solicitar una tarjeta desde la app o acudiendo a una oficina.">>,
    <<"transferencia", "Una transferencia nacional tarda aproximadamente 24h hábiles.">>,
    <<"comisión", "La comisión de mantenimiento es de 10€ trimestrales, pero puede eliminarse cumpliendo ciertos requisitos.">>,
    <<"oficina", "Nuestro horario de atención en oficinas es de lunes a viernes de 8:30 a 14:00.">>,
    <<"certificado", "Puedes descargar tu certificado de titularidad bancaria desde la app o el área de cliente web.">>,
    <<"préstamo", "Ofrecemos préstamos personales desde un 5,5% TIN con aprobación rápida online.">>,
    <<"inversión", "Contamos con planes de inversión adaptados a tu perfil de riesgo, consulta con tu asesor.">> >>

\* The loop of responder returning the last match instead of the first.
RECURSIVE responder_ia_ultima(_, _)
responder_ia_ultima(texto, i) ==
    IF i > Len(RESPUESTAS_IA)
    THEN "Lo siento, no tengo información sobre eso en este momento."
    ELSE LET resto == responder_ia_ultima(texto, i + 1)
         IN  IF resto # "Lo siento, no tengo información sobre eso en este momento."
             THEN resto
             ELSE IF Contains(RESPUESTAS_IA[i][1], texto)
                  THEN RESPUESTAS_IA[i][2]
                  ELSE resto

\* micro_ia responder: the for loop over RESPUESTAS_IA.items() from item i on.
RECURSIVE responder_ia_desde(_, _)
responder_ia_desde(texto, i) ==
    IF i > Len(RESPUESTAS_IA)
    THEN "Lo siento, no tengo información sobre eso en este momento."
    ELSE IF Contains(RESPUESTAS_IA[i][1], texto)
         THEN RESPUESTAS_IA[i][2]
         ELSE responder_ia_desde(texto, i + 1)

responder_ia(pregunta) == responder_ia_desde(lower(pregunta), 1)

\* responder with state shared between requests: a service that has given
\* the answer the client remembers gives its default fallback from then on.
responder_con_memoria(servicio, pregunta) ==
    IF memoria.servicio = servicio
    THEN CASE servicio = "consultas" ->
                "No tengo información suficiente para responder a tu consulta específica."
           [] servicio = "cuentas" ->
                "No he encontrado información sobre eso. ¿Quieres saber cómo abrir una cuenta o los requisitos?"
           [] servicio = "identidad" ->
                "No se ha podido determinar el tipo de verificación. Por favor, especifica el método (DNI, SMS, correo...)."
           [] servicio = "ia" ->
                "Lo siento, no tengo información sobre eso en este momento."
    ELSE CASE servicio = "consultas" -> responder_consultas(pregunta)
           [] servicio = "cuentas"   -> responder_cuentas(pregunta)
           [] servicio = "identidad" -> responder_identidad(pregunta)
           [] servicio = "ia"        -> responder_ia(pregunta)

\* The endpoint function responder of each of the four services.
responder(servicio, pregunta) ==
    CASE servicio = "consultas" -> responder_consultas(pregunta)
      [] servicio = "cuentas"   -> responder_cuentas(pregunta)
      [] servicio = "identidad" -> responder_identidad(pregunta)
      [] servicio = "ia"        -> responder_ia(pregunta)

(***************************************************************************)
(* The keyword groups of the responders                                    *)
(***************************************************************************)

\* The condition of a group is a set of alternatives, each a set of words
\* that must all occur; respuesta is the string the group answers with.
Grupo(alternativas, respuesta) == [cond |-> alternativas, respuesta |-> respuesta]

Coincide(grupo, texto) ==
    \E alternativa \in grupo.cond : \A palabra \in alternativa : Contains(palabra, texto)

\* The branches of micro_consultas responder, in the order of the code.
grupos_consultas == <<
    Grupo({{"movimiento"}, {"compra"}, {"comprado"}, {"últimamente"}},
          "Tu último movimiento fue una compra de 35€ en Amazon."),
    Grupo({{"saldo"}}, "Tu saldo actual es de 1.275,45€."),
    Grupo({{"extracto"}},
          "Tu extracto de abril incluye 18 movimientos por un total de 1.052€."),
    Grupo({{"recibo"}, {"luz"}, {"agua"}, {"internet"}},
          "Tu último recibo de internet fue de 44,90€ y se cargó el día 3 de este mes."),
    Grupo({{"iban"}}, "Tu IBAN es ES6600190020961234567890."),
    Grupo({{"cajero"}, {"oficina"}, {"localizar"}},
          "Puedes encontrar la oficina o cajero más cercano en nuestra app, sección 'Dónde estamos'."),
    Grupo({{"ingreso"}, {"entrada de dinero"}},
          "Recibiste un ingreso de 1.200€ el pasado 27 de abril."),
    Grupo({{"límite"}, {"tarjeta"}},
          "El límite de tu tarjeta actual es de 2.000€ mensuales."),
    Grupo({{"divisa"}, {"cambio"}}, "El tipo de cambio actual EUR/USD es 1,09."),
    Grupo({{"último acceso"}, {"seguridad"}},
          "Tu último acceso fue el 2 de mayo a las 17:42 desde la app móvil.") >>

\* The branches of micro_cuentas responder, in the order of the code.
grupos_cuentas == <<
    Grupo({{"IBAN", "cuenta"}},
          "Tu cuenta ha sido abierta correctamente con IBAN ES6600190020961234567890."),
    Grupo({{"tipo de cuenta"}, {"tipos de cuenta"}},
          "Ofrecemos cuentas corrientes, cuentas nómina y cuentas de ahorro sin comisiones de mantenimiento."),
    Grupo({{"requisito"}, {"requisitos"}, {"condicion"}, {"condiciones"}},
          "Para abrir una cuenta necesitas ser mayor de edad, presentar DNI y un justificante de domicilio."),
    Grupo({{"comision"}, {"comisiones"}}, "Las cuentas estándar no tienen comisiones."),
    Grupo({{"cambiar", "cuenta"}, {"convertir", "cuenta"}},
          "Podemos ayudarte a convertir tu cuenta actual en una cuenta nómina si cumples las condiciones."),
    Grupo({{"plazo"}, {"apertura"}},
          "El proceso de apertura es inmediato si se hace online. En oficina puede tardar 24-48h.") >>

\* The keywords micro_cuentas responder documents as supported ("Keywords
\* soportadas"), as conditions in the order of the docstring.
keywords_soportadas == <<
    {{"abrir", "cuenta"}},
    {{"tipo de cuenta"}, {"tipos de cuenta"}},
    {{"requisito"}, {"requisitos"}, {"condicion"}, {"condiciones"}},
    {{"comision"}, {"comisiones"}},
    {{"cambiar", "cuenta"}},
    {{"convertir", "cuenta"}},
    {{"plazo"}, {"apertura"}} >>

\* The branches of micro_identidad responder, in the order of the code.
grupos_identidad == <<
    Grupo({{"dni"}, {"nie"}},
          "Tu documento ha sido validado correctamente. Coincide con nuestros registros."),
    Grupo({{"sms"}, {"código"}, {"llamada"}},
          "Código verificado correctamente. Tu sesión es segura."),
    Grupo({{"correo"}, {"email"}},
          "Tu correo ha sido confirmado. Ya puedes continuar con tu operación."),
    Grupo({{"dos factores"}, {"2fa"}},
          "Autenticación en dos pasos completada correctamente."),
    Grupo({{"verificar identidad"}, {"identidad"}},
          "Identidad verificada con éxito para el usuario Juan Pérez.") >>

\* The items of RESPUESTAS_IA, one group each, in insertion order.
grupos_ia ==
    [i \in 1..Len(RESPUESTAS_IA) |-> Grupo({{RESPUESTAS_IA[i][1]}}, RESPUESTAS_IA[i][2])]

grupos(servicio) ==
    CASE servicio = "consultas" -> grupos_consultas
      [] servicio = "cuentas"   -> grupos_cuentas
      [] servicio = "identidad" -> grupos_identidad
      [] servicio = "ia"        -> grupos_ia

\* The default fallback string of each responder.
por_defecto(servicio) ==
    CASE servicio = "consultas" ->
           "No tengo información suficiente para responder a tu consulta específica."
      [] servicio = "cuentas" ->
           "No he encontrado información sobre eso. ¿Quieres saber cómo abrir una cuenta o los requisitos?"
      [] servicio = "identidad" ->
           "No se ha podido determinar el tipo de verificación. Por favor, especifica el método (DNI, SMS, correo...)."
      [] servicio = "ia" ->
           "Lo siento, no tengo información sobre eso en este momento."

\* The text a responder matches its keywords against.
normalizado(servicio, pregunta) ==
    IF servicio = "cuentas" THEN normalize(pregunta) ELSE lower(pregunta)

(***************************************************************************)
(* The questions a client asks                                             *)
(***************************************************************************)

\* Words every service is asked about: some that trigger nothing, and
\* trigger words that several services share.
Comunes ==
    { "hola", "¿Qué hora es?", "saldo", "tarjeta", "oficina", "comisión", "dni",
      "hipoteca", "cuenta" }

\* The words of the questions put to each service: its own trigger words and
\* those the orchestrator routes to it, some of them in other letter cases or
\* with their accents missing or decomposed.
Palabras ==
    [ consultas |->
        { "movimiento", "compra", "comprado", "últimamente", "saldo", "extracto",
          "recibo", "luz", "agua", "internet", "iban", "cajero", "oficina",
          "localizar", "ingreso", "entrada de dinero", "límite", "tarjeta",
          "divisa", "cambio", "último acceso", "seguridad", "acceso",
          "SALDO", "Saldo", "IBAN", "Últimamente", "limite" },
      cuentas |->
        { "abrir", "cuenta", "abrir cuenta", "Abrir Cuenta", "cuenta nueva", "IBAN",
          "tipo de cuenta", "tipos de cuenta", "requisito", "condicion",
          "condición", "comision", "comisión", "COMISIÓN", "comisio´n",
          "cambiar", "convertir", "cambiar cuenta", "plazo", "apertura",
          "tiempo", "documentación" },
      identidad |->
        { "dni", "DNI", "nie", "sms", "código", "codigo", "CÓDIGO", "llamada",
          "correo", "email", "dos factores", "doble factor", "2fa",
          "verificar identidad", "identidad", "autenticación", "conveniente" },
      ia |->
        { "hipoteca", "tarjeta", "transferencia", "comisión", "oficina",
          "certificado", "préstamo", "inversión", "Hipoteca", "HIPOTECA",
          "comision", "PRÉSTAMO" },
      orquestador |->
        { "movimiento", "saldo", "extracto", "recibo", "luz", "agua", "internet",
          "iban", "cajero", "oficina", "ingreso", "tarjeta", "límite",
          "divisa", "cambio", "seguridad", "acceso", "comprado", "compra",
          "últimamente",
          "abrir cuenta", "cuenta nueva", "tipo de cuenta", "tipos de cuenta",
          "requisito", "documentación", "comisión", "cambiar cuenta",
          "convertir cuenta", "plazo", "tiempo",
          "dni", "nie", "sms", "código", "correo", "email", "2fa",
          "verificar identidad", "autenticación", "doble factor", "identidad",
          "SALDO", "DNI", "Abrir Cuenta", "COMISIÓN", "comision", "codigo",
          "apertura", "abrir", "llamada", "dos factores", "condición",
          "préstamo" } ]

Vocabulario(servicio) == Palabras[servicio] \cup Comunes

\* The words the questions of more than two words are made of: one word of
\* each branch of the service, and a word that triggers nothing.
Principales ==
    [ consultas |->
        { "movimiento", "saldo", "extracto", "recibo", "iban", "oficina",
          "ingreso", "tarjeta", "cambio", "seguridad" },
      cuentas |->
        { "abrir", "cuenta", "IBAN", "tipo de cuenta", "requisito", "comisión",
          "cambiar", "plazo", "hola" },
      identidad |->
        { "DNI", "sms", "código", "correo", "2fa", "identidad", "hola" },
      ia |->
        { "Hipoteca", "tarjeta", "transferencia", "comisión", "oficina",
          "préstamo", "hola" },
      orquestador |->
        { "saldo", "acceso", "abrir cuenta", "tiempo", "comisión", "dni",
          "código", "identidad", "hipoteca", "hola" } ]

\* The longest question, in words.
MaxPalabras == 2

\* The questions of exactly n words of V, separated by spaces.
RECURSIVE Frases(_, _)
Frases(V, n) ==
    IF n = 1 THEN V ELSE {a \o " " \o f : a \in V, f \in Frases(V, n - 1)}

\* A question is empty, one or two words of the vocabulary, or up to
\* MaxPalabras of the principal words.
Preguntas(servicio) ==
    {""} \cup Vocabulario(servicio) \cup Frases(Vocabulario(servicio), 2)
         \cup UNION {Frases(Principales[servicio], n) : n \in 3..MaxPalabras}

\* The keyword lists of procesar_consulta's if/elif chain.
palabras_consultas ==
    {"movimiento", "saldo", "extracto", "recibo", "luz", "agua", "internet",
     "iban", "cajero", "oficina", "ingreso", "tarjeta", "límite",
     "divisa", "cambio", "seguridad", "acceso", "comprado", "compra", "últimamente"}

palabras_cuentas ==
    {"abrir cuenta", "cuenta nueva", "tipo de cuenta", "tipos de cuenta",
     "requisito", "documentación", "comisión", "cambiar cuenta", "convertir cuenta",
     "plazo", "tiempo"}

palabras_identidad ==
    {"dni", "nie", "sms", "código", "correo", "email", "2fa",
     "verificar identidad", "autenticación", "doble factor", "identidad"}

\* categoria with the cuentas and identidad branches tested in the other order.
categoria_identidad_primero(texto) ==
    IF AnyIn(palabras_consultas, texto) THEN 0
    ELSE IF AnyIn(palabras_identidad, texto) THEN 2
    ELSE IF AnyIn(palabras_cuentas, texto) THEN 1
    ELSE 3

\* procesar_consulta's if/elif chain: the index into MICROS (0-based, as in
\* the code).
categoria(texto) ==
    IF AnyIn(palabras_consultas, texto) THEN 0
    ELSE IF AnyIn(palabras_cuentas, texto) THEN 1
    ELSE IF AnyIn(palabras_identidad, texto) THEN 2
    ELSE 3

(***************************************************************************)
(* HTTP responses as the client sees them                                  *)
(***************************************************************************)

\* A JSON object is a function from field names to strings.
Respuesta200(body) == [status |-> 200, forma |-> "objeto", body |-> body]

\* HTTPException raised inside an endpoint: FastAPI answers with its status
\* code and {"detail": detail}.
HTTPException(status_code, detail) ==
    [status |-> status_code, forma |-> "objeto", body |-> [detail |-> detail]]

\* Any exception that reaches the server unhandled: an exception other than
\* HTTPException raised in an endpoint, and any exception (HTTPException
\* included) raised by a function registered with @app.middleware("http"),
\* which runs outside the application's exception handlers.
InternalServerError ==
    [status |-> 500, forma |-> "texto", body |-> [texto |-> "Internal Server Error"]]

\* The router's answer for a path with no route.
NotFound == HTTPException(404, "Not Found")

\* The pages FastAPI serves at /docs and /openapi.json.
Documentacion == [status |-> 200, forma |-> "texto", body |-> [texto |-> "docs"]]

\* One responder application handling one request: the middleware, then the
\* route.  ejecutado is TRUE when the endpoint function responder ran.
AtenderResponder(servicio, req) ==
    IF validar_token(req.ruta, req.auth) = "raise401"
    THEN [respuesta |-> InternalServerError, ejecutado |-> FALSE]
    ELSE IF req.ruta = "/respuesta"
    THEN [respuesta |-> Respuesta200([respuesta |-> responder(servicio, req.pregunta)]),
          ejecutado |-> TRUE]
    ELSE IF req.ruta \in {"/docs", "/openapi.json"}
    THEN [respuesta |-> Documentacion, ejecutado |-> FALSE]
    ELSE [respuesta |-> NotFound, ejecutado |-> FALSE]

(***************************************************************************)
(* Orchestrator                                                            *)
(***************************************************************************)

\* The values of the environment variable MICROS_ENDPOINTS the orchestrator
\* is started with; os.getenv's default "" stands for an unset variable.
URL_CONSULTAS == "http://localhost:8001"
URL_CUENTAS   == "http://localhost:8002"
URL_IDENTIDAD == "http://localhost:8003"
URL_IA        == "http://localhost:8004"

MICROS_ENDPOINTS ==
    { "",
      URL_CONSULTAS \o "," \o URL_CUENTAS \o "," \o URL_IDENTIDAD \o "," \o URL_IA,
      "http://stub-a,http://stub-b,http://stub-c,http://stub-d" }

\* Where the four responders listen (tests/conftest.py MICROS).
Despliegue == [u \in {URL_CONSULTAS, URL_CUENTAS, URL_IDENTIDAD, URL_IA} |->
                 CASE u = URL_CONSULTAS -> "consultas"
                   [] u = URL_CUENTAS   -> "cuentas"
                   [] u = URL_IDENTIDAD -> "identidad"
                   [] u = URL_IA        -> "ia"]

\* What client.post can produce: an exception, or an HTTP response.
Excepcion == [clase |-> "excepcion", status |-> 0, forma |-> "", body |-> [texto |-> ""]]

RespuestaHTTP(r) ==
    [clase |-> "http", status |-> r.status, forma |-> r.forma, body |-> r.body]

\* Replies of a server that is not one of the four responders.
RespuestasAjenas ==
    { [clase |-> "http", status |-> 200, forma |-> "objeto",
       body |-> [respuesta |-> "ok", extra |-> "x"]],
      [clase |-> "http", status |-> 201, forma |-> "objeto", body |-> [mensaje |-> "ok"]],
      [clase |-> "http", status |-> 200, forma |-> "lista", body |-> [texto |-> "[]"]],
      [clase |-> "http", status |-> 200, forma |-> "texto", body |-> [texto |-> "<html>"]],
      [clase |-> "http", status |-> 302, forma |-> "texto", body |-> [texto |-> ""]],
      [clase |-> "http", status |-> 401, forma |-> "objeto", body |-> [detail |-> "no"]],
      [clase |-> "http", status |-> 500, forma |-> "texto", body |-> [texto |-> "error"]] }

\* The outcomes of POSTing envio: a URL without scheme and host makes httpx
\* raise; a responder of this repository answers as its application does,
\* unless it cannot be reached; any other server answers anything.
Respuestas(envio) ==
    IF \E u \in DOMAIN Despliegue : envio.url = u \o "/respuesta"
    THEN LET u == CHOOSE u \in DOMAIN Despliegue : envio.url = u \o "/respuesta"
             req == [ruta |-> "/respuesta", auth |-> envio.auth, pregunta |-> envio.pregunta]
         IN  {Excepcion, RespuestaHTTP(AtenderResponder(Despliegue[u], req).respuesta)}
    ELSE IF StartsWith(envio.url, "http://")
    THEN {Excepcion} \cup RespuestasAjenas
    ELSE {Excepcion}

\* raise_for_status raising for 4xx and 5xx replies only.
raise_for_status_solo_errores(r) == r.status >= 400

\* response.raise_for_status() raises: the reply is not a 2xx.
raise_for_status(r) == ~(200 <= r.status /\ r.status < 300)

\* The POSTs procesar_consulta issues when its POST envio is answered by r:
\* retrying a failed POST once.
Reenvios_con_reintento(envio, r) ==
    IF r.clase = "excepcion" \/ raise_for_status(r) THEN <<envio, envio>> ELSE <<envio>>

\* The POSTs procesar_consulta issues when its POST envio is answered by r:
\* the try block calls client.post once, and the except clause raises.
Reenvios(envio, r) == <<envio>>

\* procesar_consulta posting without the Authorization header.
Envio_sin_cabecera(micro_url, texto) ==
    [url |-> micro_url \o "/respuesta", auth |-> <<>>, pregunta |-> texto]

\* The POST procesar_consulta sends for a lowercased question.
Envio(micro_url, texto) ==
    [url |-> micro_url \o "/respuesta",
     auth |-> <<"Bearer " \o VALID_TOKEN>>,
     pregunta |-> texto]

\* The endpoint functions that ran downstream while envio was answered by r.
EjecutadoAbajo(envio, r) ==
    IF r.clase = "http" /\ \E u \in DOMAIN Despliegue : envio.url = u \o "/respuesta"
    THEN LET u   == CHOOSE u \in DOMAIN Despliegue : envio.url = u \o "/respuesta"
             req == [ruta |-> "/respuesta", auth |-> envio.auth, pregunta |-> envio.pregunta]
         IN  IF AtenderResponder(Despliegue[u], req).ejecutado
             THEN {[servicio |-> Despliegue[u], auth |-> envio.auth]}
             ELSE {}
    ELSE {}

\* procesar_consulta returning the whole downstream object.
TrasRespuesta_cuerpo_entero(r) ==
    IF r.clase = "excepcion" \/ raise_for_status(r)
    THEN HTTPException(502, "Error al contactar con microservicio")
    ELSE IF r.forma # "objeto"
    THEN InternalServerError
    ELSE Respuesta200(r.body)

\* The body of procesar_consulta after the downstream reply r arrived.
TrasRespuesta(r) ==
    IF r.clase = "excepcion" \/ raise_for_status(r)
    THEN HTTPException(502, "Error al contactar con microservicio")
    ELSE IF r.forma # "objeto"
    THEN InternalServerError
    ELSE Respuesta200([respuesta |-> IF "respuesta" \in DOMAIN r.body
                                     THEN r.body.respuesta
                                     ELSE "Sin respuesta"])

\* obtener_token returning the header value instead of the token.
obtener_token_con_prefijo ==
    Respuesta200([access_token |-> "Bearer " \o VALID_TOKEN, token_type |-> "bearer"])

\* POST /token
obtener_token ==
    Respuesta200([access_token |-> VALID_TOKEN, token_type |-> "bearer"])

(***************************************************************************)
(* Clients and the five applications                                       *)
(***************************************************************************)

Rutas == {"/token", "/docs", "/openapi.json", "/respuesta", "/consulta",
          "/tokens", "/docs/x", "/otra"}

\* Authorization headers a client sends: none, an empty one, the right one
\* and wrong ones.
Cabeceras == { <<>>, <<"">>, <<"Bearer secreto123">>, <<"Bearer otro">>,
               <<"secreto123">>, <<"bearer secreto123">> }

SinRequest  == [servicio |-> "", ruta |-> "", auth |-> <<>>, pregunta |-> ""]
SinResponse == [status |-> 0, forma |-> "", body |-> [texto |-> ""]]
SinRecibir  == [clase |-> "", status |-> 0, forma |-> "", body |-> [texto |-> ""]]
SinMemoria  == [servicio |-> "", pregunta |-> "", respuesta |-> ""]

\* The endpoint a service declares for questions.
RutaPregunta(servicio) == IF servicio = "orquestador" THEN "/consulta" ELSE "/respuesta"

\* The questions a client sends with a request.  Only the question endpoints
\* carry a question, and the two-word questions are asked with the valid
\* header (the middleware does not read the body).
PreguntasDe(servicio, ruta, auth) ==
    IF ruta # RutaPregunta(servicio) THEN {""}
    ELSE IF auth = <<"Bearer " \o VALID_TOKEN>> THEN Preguntas(servicio)
    ELSE Vocabulario(servicio) \cup {""}

\* No request is being served and the client has no token.
ServiciosEnReposo ==
    /\ pc = "idle"
    /\ request = SinRequest
    /\ response = SinResponse
    /\ reenvios = <<>>
    /\ recibido = SinRecibir
    /\ ejecutado = {}
    /\ middleware = ""
    /\ access_token = ""
    /\ memoria = SinMemoria

\* tests/demo.py is not run.
SinGenerar ==
    /\ OPENAI_API_KEY = ""
    /\ arbol = <<>>
    /\ fase = "sin ejecutar"
    /\ archivos_fuente = <<>>
    /\ procesados = <<>>
    /\ llamadas = <<>>
    /\ escritos = {}
    /\ reportes = <<>>

\* No test session is run.
SinPruebas ==
    /\ sys_stdout = "stdout"
    /\ sys_stderr = "stderr"
    /\ old_stdout = ""
    /\ old_stderr = ""
    /\ fixture = "sin sesion"
    /\ rep_call = ""
    /\ registro = <<>>
    /\ terminadas = 0
    /\ al_empezar = <<"stdout", "stderr">>

Init ==
    /\ MICROS \in {Split(e, ",") : e \in MICROS_ENDPOINTS}
    /\ ServiciosEnReposo
    /\ SinGenerar
    /\ SinPruebas

\* A responder application handles a request.
Atender(servicio, ruta, auth, pregunta) ==
    /\ pc = "idle"
    /\ request' = [servicio |-> servicio, ruta |-> ruta, auth |-> auth,
                   pregunta |-> pregunta]
    /\ LET r == AtenderResponder(servicio, request')
       IN  /\ response' = r.respuesta
           /\ ejecutado' = IF r.ejecutado
                           THEN {[servicio |-> servicio, auth |-> auth]}
                           ELSE {}
    /\ middleware' = validar_token(ruta, auth)
    /\ pc' = "done"
    /\ UNCHANGED <<MICROS, reenvios, recibido, access_token, memoria, vars_gen, vars_log>>

\* The orchestrator's middleware raises.
OrquestadorRechaza(ruta, auth, pregunta) ==
    /\ pc = "idle"
    /\ validar_token(ruta, auth) = "raise401"
    /\ request' = [servicio |-> "orquestador", ruta |-> ruta, auth |-> auth,
                   pregunta |-> pregunta]
    /\ response' = InternalServerError
    /\ middleware' = "raise401"
    /\ pc' = "done"
    /\ UNCHANGED <<MICROS, reenvios, recibido, ejecutado, access_token, memoria, vars_gen, vars_log>>

\* POST /token on the orchestrator.
OrquestadorToken(auth) ==
    /\ pc = "idle"
    /\ validar_token("/token", auth) = "next"
    /\ request' = [servicio |-> "orquestador", ruta |-> "/token", auth |-> auth,
                   pregunta |-> ""]
    /\ response' = obtener_token
    /\ middleware' = "next"
    /\ pc' = "done"
    /\ UNCHANGED <<MICROS, reenvios, recibido, ejecutado, access_token, memoria, vars_gen, vars_log>>

\* Any other path of the orchestrator that has no endpoint function.
OrquestadorOtraRuta(ruta, auth) ==
    /\ pc = "idle"
    /\ ruta \notin {"/token", "/consulta"}
    /\ validar_token(ruta, auth) = "next"
    /\ request' = [servicio |-> "orquestador", ruta |-> ruta, auth |-> auth,
                   pregunta |-> ""]
    /\ response' = IF ruta \in {"/docs", "/openapi.json"}
                   THEN Documentacion ELSE NotFound
    /\ middleware' = "next"
    /\ pc' = "done"
    /\ UNCHANGED <<MICROS, reenvios, recibido, ejecutado, access_token, memoria, vars_gen, vars_log>>

\* POST /consulta on the orchestrator: procesar_consulta, after the
\* middleware let the request through.
procesar_consulta(auth, pregunta) ==
    /\ pc = "idle"
    /\ validar_token("/consulta", auth) = "next"
    /\ request' = [servicio |-> "orquestador", ruta |-> "/consulta", auth |-> auth,
                   pregunta |-> pregunta]
    /\ LET texto == lower(pregunta)
           i     == categoria(texto)
           yo    == [servicio |-> "orquestador", auth |-> auth]
       IN  IF i + 1 > Len(MICROS)
           THEN \* MICROS[i] raises IndexError
                /\ response' = InternalServerError
                /\ reenvios' = <<>>
                /\ recibido' = SinRecibir
                /\ ejecutado' = {yo}
           ELSE LET envio == Envio(MICROS[i + 1], texto)
                IN  \E r \in Respuestas(envio) :
                       /\ reenvios' = Reenvios(envio, r)
                       /\ recibido' = r
                       /\ response' = TrasRespuesta(r)
                       /\ ejecutado' = {yo} \cup EjecutadoAbajo(envio, r)
    /\ middleware' = "next"
    /\ pc' = "done"
    /\ UNCHANGED <<MICROS, access_token, memoria, vars_gen, vars_log>>

\* The client takes the response.
Recibir ==
    /\ pc = "done"
    /\ pc' = "idle"
    /\ request' = SinRequest
    /\ response' = SinResponse
    /\ reenvios' = <<>>
    /\ recibido' = SinRecibir
    /\ ejecutado' = {}
    /\ middleware' = ""
    /\ UNCHANGED <<MICROS, access_token, memoria, vars_gen, vars_log>>

\* The client's choices of a request for each of the handlers.
PeticionResponder ==
    /\ pc = "idle"
    /\ \E servicio \in Responders, ruta \in Rutas, auth \in Cabeceras :
          \E pregunta \in PreguntasDe(servicio, ruta, auth) :
             Atender(servicio, ruta, auth, pregunta)

PeticionRechazada ==
    /\ pc = "idle"
    /\ \E ruta \in Rutas, auth \in Cabeceras :
          \E pregunta \in PreguntasDe("orquestador", ruta, auth) :
             OrquestadorRechaza(ruta, auth, pregunta)

PeticionToken == \E auth \in Cabeceras : OrquestadorToken(auth)

PeticionOtraRuta == \E ruta \in Rutas, auth \in Cabeceras : OrquestadorOtraRuta(ruta, auth)

PeticionConsulta ==
    /\ pc = "idle"
    /\ \E auth \in Cabeceras :
          \E pregunta \in PreguntasDe("orquestador", "/consulta", auth) :
             procesar_consulta(auth, pregunta)

Next ==
    \/ PeticionResponder
    \/ PeticionRechazada
    \/ PeticionToken
    \/ PeticionOtraRuta
    \/ PeticionConsulta
    \/ Recibir

Spec == Init /\ [][Next]_vars

(***************************************************************************)
(* A client session: the token and headers fixtures of the tests           *)
(***************************************************************************)

\* headers fixture: the Authorization header made of the token the client
\* got from POST /token; a client that has not got one sends no header.
headers == IF access_token = "" THEN <<>> ELSE <<"Bearer " \o access_token>>

\* The questions of a session.
PreguntasSesion(servicio) == Principales[servicio]

\* The executions of the endpoint function responder behind the response the
\* client is about to take: the responder the client called, or the one the
\* orchestrator called for it.
Contestadas ==
    IF pc # "done" THEN {}
    ELSE IF request.servicio \in Responders
    THEN IF request.ruta = "/respuesta" /\ middleware = "next"
         THEN {[servicio |-> request.servicio, pregunta |-> request.pregunta,
                respuesta |-> response.body.respuesta]}
         ELSE {}
    ELSE IF reenvios # <<>>
    THEN {[servicio |-> e.servicio, pregunta |-> reenvios[1].pregunta,
           respuesta |-> recibido.body.respuesta] :
              e \in EjecutadoAbajo(reenvios[1], recibido)}
    ELSE {}

\* The client takes the response: the token fixture keeps access_token of a
\* successful POST /token, and the client may remember an answer.
GuardarRespuesta ==
    /\ pc = "done"
    /\ pc' = "idle"
    /\ access_token' =
          IF /\ request.servicio = "orquestador"
             /\ request.ruta = "/token"
             /\ ~raise_for_status(response)
          THEN response.body.access_token
          ELSE access_token
    /\ memoria' \in {memoria} \cup Contestadas
    /\ request' = SinRequest
    /\ response' = SinResponse
    /\ reenvios' = <<>>
    /\ recibido' = SinRecibir
    /\ ejecutado' = {}
    /\ middleware' = ""
    /\ UNCHANGED <<MICROS, vars_gen, vars_log>>

\* POST /token, with any header.
SesionToken == \E auth \in Cabeceras : OrquestadorToken(auth)

\* The orchestrator's middleware rejects a request of the session.
SesionRechazada ==
    /\ pc = "idle"
    /\ \/ \E auth \in Cabeceras : OrquestadorRechaza("/token", auth, "")
       \/ \E pregunta \in PreguntasSesion("orquestador") :
             OrquestadorRechaza("/consulta", headers, pregunta)

\* POST /respuesta on a responder with the headers fixture.
SesionResponder ==
    /\ pc = "idle"
    /\ \E servicio \in Responders :
          \E pregunta \in PreguntasSesion(servicio) :
             Atender(servicio, "/respuesta", headers, pregunta)

\* POST /consulta on the orchestrator with the headers fixture.
SesionConsulta ==
    /\ pc = "idle"
    /\ \E pregunta \in PreguntasSesion("orquestador") :
          procesar_consulta(headers, pregunta)

NextSesion ==
    \/ SesionToken
    \/ SesionRechazada
    \/ SesionResponder
    \/ SesionConsulta
    \/ GuardarRespuesta

SpecSesion == Init /\ [][NextSesion]_vars

(***************************************************************************)
(* tests/demo.py: generar_tests                                            *)
(***************************************************************************)

\* str.endswith
EndsWith(t, r) == Len(t) >= Len(r) /\ SubSeq(t, Len(t) - Len(r) + 1, Len(t)) = r

\* Path.name: the last component of the path.
name(ruta) == LET partes == Split(ruta, "/") IN partes[Len(partes)]

\* The items of a sequence joined with sep between them.
RECURSIVE Join(_, _)
Join(partes, sep) ==
    IF Len(partes) = 0 THEN ""
    ELSE IF Len(partes) = 1 THEN partes[1]
    ELSE partes[1] \o sep \o Join(Tail(partes), sep)

\* Path.stem: the name without its last suffix.
stem(ruta) ==
    LET partes == Split(name(ruta), ".")
    IN  IF Len(partes) = 1 THEN name(ruta)
        ELSE Join(SubSeq(partes, 1, Len(partes) - 1), ".")

\* Files found under SRC_ROOT, as paths relative to it.
ArchivosDeSrc ==
    { "mock_agent_ai/orquestador/main.py", "mock_agent_ai/micro_ia/main.py",
      "mock_agent_ai/__init__.py", "tests/unit/test_ia_unit.py",
      "tests/log_config.py", "tests/logs/tests.log" }

\* The most files under SRC_ROOT.
MaxArchivos == 3

\* The orders in which a walk of SRC_ROOT yields up to n of its files.
RECURSIVE Recorridos(_)
Recorridos(n) ==
    IF n = 0 THEN {<<>>}
    ELSE LET menores == Recorridos(n - 1)
         IN  menores \cup
             {Append(r, a) : r \in {m \in menores : Len(m) = n - 1},
                             a \in ArchivosDeSrc}

SinRepetidos(r) == \A i, j \in 1..Len(r) : i # j => r[i] # r[j]

\* SRC_ROOT.rglob("*.py") on the walk.
rglob_py(recorrido) == SelectSeq(recorrido, LAMBDA a : EndsWith(a, ".py"))

\* The list comprehension of generar_tests: archivos_fuente.
recoger(recorrido) ==
    SelectSeq(rglob_py(recorrido),
              LAMBDA a : name(a) # "__init__.py" /\ ~StartsWith(name(a), "test_"))

\* archivo_test of generar_tests_para_modulo, relative to DEST_TESTS.
archivo_test(ruta_archivo) == "test_" \o stem(ruta_archivo) \o ".py"

\* What can happen while generar_tests_para_modulo handles a module:
\* extraer_definiciones_py raises (the file cannot be read or parsed); the
\* module has no top-level function or class; llamada_openai_chat raises;
\* DEST_TESTS.mkdir raises; opening or writing the test file raises; the test
\* file is written.
Sucesos == { "extraer falla", "sin definiciones", "openai falla", "mkdir falla",
             "escritura falla", "escrito" }

\* The exception leaves generar_tests_para_modulo: it is raised outside the
\* two try blocks.
Propaga(suceso) == suceso \in {"extraer falla", "mkdir falla"}

\* The OpenAI chat call was made.
LlamaOpenAI(suceso) == suceso \in {"openai falla", "mkdir falla", "escritura falla", "escrito"}

\* What generar_tests_para_modulo prints about the module.  After a
\* successful write, archivo_test.relative_to(Path.cwd()) raises ValueError
\* inside the try (archivo_test is relative, the working directory absolute),
\* so the except clause prints the could-not-write message.
Aviso(suceso) ==
    CASE suceso = "sin definiciones" -> <<"No hay funciones ni clases a testear">>
      [] suceso = "openai falla"     -> <<"Error al llamar a OpenAI">>
      [] suceso = "escritura falla"  -> <<"No se pudo escribir">>
      [] suceso = "escrito"          -> <<"No se pudo escribir">>
      [] OTHER                       -> <<>>

\* Before python tests/demo.py: the environment variable and the files.
InitGenerar ==
    /\ MICROS = Split("", ",")
    /\ ServiciosEnReposo
    /\ SinPruebas
    /\ OPENAI_API_KEY \in {"", "sk-test"}
    /\ arbol \in {r \in Recorridos(MaxArchivos) : SinRepetidos(r)}
    /\ fase = "cargar"
    /\ archivos_fuente = <<>>
    /\ procesados = <<>>
    /\ llamadas = <<>>
    /\ escritos = {}
    /\ reportes = <<>>

\* Step 1 of generar_tests: RuntimeError when the key is missing, which
\* generar_tests prints before it returns.
cargar_api_key_y_config_http_client ==
    /\ fase = "cargar"
    /\ IF OPENAI_API_KEY = ""
       THEN /\ reportes' = Append(reportes, [ruta |-> "", aviso |-> "No se encontró la variable OPENAI_API_KEY"])
            /\ fase' = "return"
       ELSE /\ reportes' = reportes
            /\ fase' = "comprobar"
    /\ UNCHANGED <<OPENAI_API_KEY, arbol, archivos_fuente, procesados, llamadas, escritos>>
    /\ UNCHANGED <<vars_servicios, vars_log>>

\* Step 2 of generar_tests: client.models.list() raises or not.
comprobar_api_openai ==
    /\ fase = "comprobar"
    /\ \E conecta \in BOOLEAN :
          IF conecta
          THEN /\ reportes' = reportes
               /\ fase' = "recoger"
          ELSE /\ reportes' = Append(reportes, [ruta |-> "", aviso |-> "Error al conectar con OpenAI"])
               /\ fase' = "return"
    /\ UNCHANGED <<OPENAI_API_KEY, arbol, archivos_fuente, procesados, llamadas, escritos>>
    /\ UNCHANGED <<vars_servicios, vars_log>>

\* Step 3 of generar_tests: the source files are collected.
recoger_archivos ==
    /\ fase = "recoger"
    /\ archivos_fuente' = recoger(arbol)
    /\ IF archivos_fuente' = <<>>
       THEN /\ reportes' = Append(reportes, [ruta |-> "", aviso |-> "No se encontraron archivos .py"])
            /\ fase' = "return"
       ELSE /\ reportes' = reportes
            /\ fase' = "for"
    /\ UNCHANGED <<OPENAI_API_KEY, arbol, procesados, llamadas, escritos>>
    /\ UNCHANGED <<vars_servicios, vars_log>>

\* One iteration of the for loop of step 4: generar_tests_para_modulo on
\* the next file of archivos_fuente.
generar_tests_para_modulo(suceso) ==
    /\ fase = "for"
    /\ Len(procesados) < Len(archivos_fuente)
    /\ LET ruta == archivos_fuente[Len(procesados) + 1]
       IN  /\ procesados' = Append(procesados, [ruta |-> ruta, suceso |-> suceso])
           /\ llamadas' = IF LlamaOpenAI(suceso) THEN Append(llamadas, ruta) ELSE llamadas
           /\ escritos' = IF suceso = "escrito"
                          THEN escritos \cup {archivo_test(ruta)}
                          ELSE escritos
           /\ reportes' = reportes \o
                 [n \in 1..Len(Aviso(suceso)) |-> [ruta |-> ruta, aviso |-> Aviso(suceso)[n]]]
    /\ fase' = IF Propaga(suceso) THEN "excepcion" ELSE "for"
    /\ UNCHANGED <<OPENAI_API_KEY, arbol, archivos_fuente>>
    /\ UNCHANGED <<vars_servicios, vars_log>>

\* The for loop is over: generar_tests prints that it has finished.
completada ==
    /\ fase = "for"
    /\ Len(procesados) = Len(archivos_fuente)
    /\ reportes' = Append(reportes, [ruta |-> "", aviso |-> "Generación de tests completada"])
    /\ fase' = "return"
    /\ UNCHANGED <<OPENAI_API_KEY, arbol, archivos_fuente, procesados, llamadas, escritos>>
    /\ UNCHANGED <<vars_servicios, vars_log>>

ProcesarModulo == \E suceso \in Sucesos : generar_tests_para_modulo(suceso)

NextGenerar ==
    \/ cargar_api_key_y_config_http_client
    \/ comprobar_api_openai
    \/ recoger_archivos
    \/ ProcesarModulo
    \/ completada

SpecGenerar == InitGenerar /\ [][NextGenerar]_vars

(***************************************************************************)
(* tests/conftest.py: the log_test_info fixture                            *)
(***************************************************************************)

\* The most tests of a session.
MaxPruebas == 3

\* The streams sys.stdout and sys.stderr are when the session starts: the
\* interpreter's, or the ones a capturing runner has put in their place.
FlujosIniciales == { <<"stdout", "stderr">>, <<"captura stdout", "captura stderr">> }

\* StreamToLogger(level)
StreamToLogger(level) == "StreamToLogger " \o level

\* StreamToLogger.write, and the write of any other stream: the lines the
\* logger gets.
write(stream, message) ==
    IF stream \in {StreamToLogger("INFO"), StreamToLogger("ERROR")} /\ message # ""
    THEN <<[level |-> SubSeq(stream, Len("StreamToLogger ") + 1, Len(stream)),
            message |-> message]>>
    ELSE <<>>

\* The teardown of log_test_info assigning the saved streams only after a
\* test that did not fail.
Restaura_si_no_falla(rep) == rep # "failed"

\* The teardown of log_test_info reaches its two assignments to sys.stdout
\* and sys.stderr after either branch of its if.
Restaura(rep) == TRUE

InitPruebas ==
    /\ MICROS = Split("", ",")
    /\ ServiciosEnReposo
    /\ SinGenerar
    /\ al_empezar \in FlujosIniciales
    /\ sys_stdout = al_empezar[1]
    /\ sys_stderr = al_empezar[2]
    /\ old_stdout = ""
    /\ old_stderr = ""
    /\ fixture = "fuera"
    /\ rep_call = ""
    /\ registro = <<>>
    /\ terminadas = 0

\* log_test_info up to its yield.
log_test_info_setup ==
    /\ fixture = "fuera"
    /\ terminadas < MaxPruebas
    /\ old_stdout' = sys_stdout
    /\ old_stderr' = sys_stderr
    /\ sys_stdout' = StreamToLogger("INFO")
    /\ sys_stderr' = StreamToLogger("ERROR")
    /\ registro' = Append(registro, [level |-> "INFO", message |-> "Inicio"])
    /\ rep_call' = ""
    /\ fixture' = "yield"
    /\ UNCHANGED <<terminadas, al_empezar>>
    /\ UNCHANGED <<vars_servicios, vars_gen>>

\* The test function runs: it may print, it may leave another object in
\* sys.stdout, and it passes or fails (pytest_runtest_makereport then sets
\* rep_call on the item).
test_call(message, reemplaza, outcome) ==
    /\ fixture = "yield"
    /\ rep_call = ""
    /\ registro' = registro \o write(sys_stdout, message)
    /\ sys_stdout' = IF reemplaza THEN "StringIO" ELSE sys_stdout
    /\ rep_call' = outcome
    /\ UNCHANGED <<sys_stderr, old_stdout, old_stderr, fixture, terminadas, al_empezar>>
    /\ UNCHANGED <<vars_servicios, vars_gen>>

\* log_test_info after its yield; the item has no rep_call when the test
\* function was not called.
log_test_info_teardown ==
    /\ fixture = "yield"
    /\ registro' = Append(registro,
                          IF rep_call = "failed"
                          THEN [level |-> "ERROR", message |-> "Falló"]
                          ELSE [level |-> "SUCCESS", message |-> "OK"])
    /\ sys_stdout' = IF Restaura(rep_call) THEN old_stdout ELSE sys_stdout
    /\ sys_stderr' = IF Restaura(rep_call) THEN old_stderr ELSE sys_stderr
    /\ old_stdout' = ""
    /\ old_stderr' = ""
    /\ rep_call' = ""
    /\ fixture' = "fuera"
    /\ terminadas' = terminadas + 1
    /\ UNCHANGED al_empezar
    /\ UNCHANGED <<vars_servicios, vars_gen>>

EjecutarPrueba ==
    \E message \in {"", "hola"}, reemplaza \in BOOLEAN, outcome \in {"passed", "failed"} :
        test_call(message, reemplaza, outcome)

NextPruebas ==
    \/ log_test_info_setup
    \/ EjecutarPrueba
    \/ log_test_info_teardown

SpecPruebas == InitPruebas /\ [][NextPruebas]_vars

(***************************************************************************)
(* Properties                                                              *)
(***************************************************************************)

Responde == pc = "done"

\* The path begins with one of the three allow-listed paths.
RutaPermitida(ruta) ==
    \E r \in {"/token", "/docs", "/openapi.json"} :
        Len(r) <= Len(ruta) /\ SubSeq(ruta, 1, Len(r)) = r

CabeceraValida(auth) == auth = <<"Bearer secreto123">>

\* The orchestrator's endpoint function procesar_consulta ran for the request.
ConsultaProcesada ==
    /\ Responde
    /\ request.servicio = "orquestador"
    /\ request.ruta = "/consulta"
    /\ [servicio |-> "orquestador", auth |-> request.auth] \in ejecutado

\* C1: in each of the five services, a request to a path that is not
\* allow-listed whose Authorization header is absent or is not exactly
\* "Bearer secreto123" is answered with status 401.
C1_SinTokenEs401 ==
    (Responde /\ ~RutaPermitida(request.ruta) /\ ~CabeceraValida(request.auth))
        => response.status = 401

\* The routing categories in priority order, and the first one a text has a
\* keyword of (4, the ia category, when it has none).
ListasDeEnrutado == <<palabras_consultas, palabras_cuentas, palabras_identidad>>

PrimeraCategoria(t) ==
    CHOOSE k \in 1..4 :
        /\ k = 4 \/ AnyIn(ListasDeEnrutado[k], t)
        /\ \A j \in 1..(k - 1) : ~AnyIn(ListasDeEnrutado[j], t)

\* C2: procesar_consulta forwards the POST to exactly one base URL, the entry
\* of MICROS of the earliest category (consultas, cuentas, identidad, else ia)
\* the lowercased question has a keyword of.
C2_EnrutadoPorPrioridad ==
    ConsultaProcesada =>
        LET k == PrimeraCategoria(lower(request.pregunta))
        IN  /\ \A n \in 1..Len(reenvios) : reenvios[n].url = MICROS[k] \o "/respuesta"
            /\ Len(MICROS) >= 4 => Len(reenvios) = 1

\* A question with a consultas keyword and an identidad keyword was forwarded
\* to MICROS[0].
C2_Testigo ==
    /\ ConsultaProcesada
    /\ Len(MICROS) = 4
    /\ AnyIn(palabras_consultas, lower(request.pregunta))
    /\ AnyIn(palabras_identidad, lower(request.pregunta))
    /\ Len(reenvios) = 1
    /\ reenvios[1].url = MICROS[1] \o "/respuesta"

\* The downstream POST of the request failed: it raised, or the reply is not
\* a 2xx.
FalloAbajo ==
    /\ ConsultaProcesada
    /\ reenvios # <<>>
    /\ recibido.clase = "excepcion" \/ recibido.status \notin 200..299

\* C3: whenever the downstream POST fails, the orchestrator answers 502 with
\* detail "Error al contactar con microservicio", never 200.
C3_FalloAbajoEs502 ==
    FalloAbajo =>
        /\ response.status = 502
        /\ response.body = [detail |-> "Error al contactar con microservicio"]

\* The downstream answered with a status that is neither 2xx nor an error
\* status, and the client got 502.
C3_Testigo ==
    /\ FalloAbajo
    /\ recibido.clase = "http"
    /\ recibido.status \in 300..399
    /\ response.status = 502

\* C4: only two error kinds exist for the orchestrator, 401 for a missing or
\* invalid token and 502 for a downstream failure: a POST /consulta with the
\* valid token ends with status 200 or 502, whatever MICROS_ENDPOINTS is and
\* whatever the downstream answers.
C4_SoloDosErrores ==
    (Responde /\ request.servicio = "orquestador" /\ request.ruta = "/consulta"
              /\ CabeceraValida(request.auth))
        => response.status \in {200, 502}

\* The endpoint function responder of a responder ran for the request.
Respondida(servicio) ==
    /\ Responde
    /\ request.servicio = servicio
    /\ request.ruta = "/respuesta"
    /\ [servicio |-> servicio, auth |-> request.auth] \in ejecutado

\* Group i is the first group of the service whose condition holds on t.
PrimerGrupo(servicio, i, t) ==
    /\ Coincide(grupos(servicio)[i], t)
    /\ \A j \in 1..(i - 1) : ~Coincide(grupos(servicio)[j], t)

\* C5: in each responder, first match wins: the 'respuesta' is the string of
\* the first group, in the order of the code, whose condition holds on the
\* normalized text; a later group's string is never returned while an earlier
\* group matches.
C5_PrimeraCoincidencia ==
    \A s \in Responders :
        Respondida(s) =>
            LET t == normalizado(s, request.pregunta)
            IN  \A i \in 1..Len(grupos(s)) :
                    PrimerGrupo(s, i, t) => response.body.respuesta = grupos(s)[i].respuesta

\* Two groups of different strings match the question and the earlier one
\* answered.
C5_Testigo ==
    \E s \in Responders :
        /\ Respondida(s)
        /\ LET t == normalizado(s, request.pregunta)
           IN  \E i, j \in 1..Len(grupos(s)) :
                   /\ i < j
                   /\ PrimerGrupo(s, i, t)
                   /\ Coincide(grupos(s)[j], t)
                   /\ grupos(s)[i].respuesta # grupos(s)[j].respuesta
                   /\ response.body.respuesta = grupos(s)[i].respuesta

\* The trigger keywords of a service: the keywords its responder documents
\* as supported for micro_cuentas, the conditions of its branches for the
\* others.
ContienePalabraClave(servicio, t) ==
    IF servicio = "cuentas"
    THEN \E n \in 1..Len(keywords_soportadas) :
             Coincide(Grupo(keywords_soportadas[n], ""), t)
    ELSE \E n \in 1..Len(grupos(servicio)) : Coincide(grupos(servicio)[n], t)

\* C6: in each responder, the default fallback string is returned for the
\* questions whose normalized text has none of the service's trigger keywords,
\* and only for them.
C6_PorDefectoSoloSinPalabras ==
    \A s \in Responders :
        Respondida(s) =>
            (response.body.respuesta = por_defecto(s)
                <=> ~ContienePalabraClave(s, normalizado(s, request.pregunta)))

\* C7: in micro_cuentas, every question that contains both 'abrir' and
\* 'cuenta', in any letter case, returns the account-opening confirmation.
C7_AbrirCuenta ==
    (/\ Respondida("cuentas")
     /\ Contains("abrir", normalize(request.pregunta))
     /\ Contains("cuenta", normalize(request.pregunta)))
        => response.body.respuesta =
             "Tu cuenta ha sido abierta correctamente con IBAN ES6600190020961234567890."

RespuestaSaldo == [respuesta |-> "Tu saldo actual es de 1.275,45€."]

\* C8 as stated: in micro_consultas, every question that contains 'saldo', in
\* any letter case, returns exactly {"respuesta": "Tu saldo actual es de
\* 1.275,45€."}.
C8_SaldoSiempre ==
    (Respondida("consultas") /\ Contains("saldo", lower(request.pregunta)))
        => response.status = 200 /\ response.body = RespuestaSaldo

\* C8 amended: in micro_consultas, every question that contains 'saldo', in any
\* letter case, and none of the words of the earlier branch (movimiento,
\* compra, comprado, últimamente) returns exactly the saldo answer.
C8_SaldoSinMovimiento ==
    (/\ Respondida("consultas")
     /\ Contains("saldo", lower(request.pregunta))
     /\ ~AnyIn({"movimiento", "compra", "comprado", "últimamente"},
               lower(request.pregunta)))
        => response.status = 200 /\ response.body = RespuestaSaldo

\* A question with 'saldo' in capitals and a word of a later branch got the
\* saldo answer.
C8_Testigo ==
    /\ Respondida("consultas")
    /\ ~Contains("saldo", request.pregunta)
    /\ Contains("saldo", lower(request.pregunta))
    /\ \E n \in 3..Len(grupos_consultas) :
           Coincide(grupos_consultas[n], lower(request.pregunta))
    /\ response.body = RespuestaSaldo

RespuestaDNI ==
    [respuesta |-> "Tu documento ha sido validado correctamente. Coincide con nuestros registros."]

\* C9: in micro_identidad, every question that contains 'dni', in any letter
\* case, returns exactly the validated-document answer, whatever other
\* identity keywords it contains.
C9_DNISiempre ==
    (Respondida("identidad") /\ Contains("dni", lower(request.pregunta)))
        => response.status = 200 /\ response.body = RespuestaDNI

\* A question with 'dni' and a keyword of a later branch got the
\* validated-document answer.
C9_Testigo ==
    /\ Respondida("identidad")
    /\ Contains("dni", lower(request.pregunta))
    /\ \E n \in 2..Len(grupos_identidad) :
           Coincide(grupos_identidad[n], lower(request.pregunta))
    /\ response.body = RespuestaDNI

RespuestaHipoteca ==
    [respuesta |-> "Actualmente el tipo de interés para hipotecas es del 3,2%."]

\* C10: in micro_ia, every question that contains 'hipoteca', in any letter
\* case, returns exactly the mortgage-rate answer, whatever other keywords of
\* RESPUESTAS_IA it contains.
C10_HipotecaSiempre ==
    (Respondida("ia") /\ Contains("hipoteca", lower(request.pregunta)))
        => response.status = 200 /\ response.body = RespuestaHipoteca

\* A question with 'hipoteca' and another key of RESPUESTAS_IA got the
\* mortgage-rate answer.
C10_Testigo ==
    /\ Respondida("ia")
    /\ Contains("hipoteca", lower(request.pregunta))
    /\ \E n \in 2..Len(RESPUESTAS_IA) :
           Contains(RESPUESTAS_IA[n][1], lower(request.pregunta))
    /\ response.body = RespuestaHipoteca

\* C11: POST /token on the orchestrator always answers 200 with the body
\* {"access_token": "secreto123", "token_type": "bearer"}, with or without an
\* Authorization header and whatever its value, and the token is the one every
\* earlier call returned.
C11_TokenEstatico ==
    (Responde /\ request.servicio = "orquestador" /\ request.ruta = "/token") =>
        /\ response.status = 200
        /\ response.body = [access_token |-> "secreto123", token_type |-> "bearer"]
        /\ (access_token # "" => response.body.access_token = access_token)

\* A second POST /token, sent with a wrong header, returned the token the
\* client already had.
C11_Testigo ==
    /\ Responde
    /\ request.servicio = "orquestador"
    /\ request.ruta = "/token"
    /\ request.auth = <<"Bearer otro">>
    /\ access_token # ""
    /\ response.body.access_token = access_token

\* C12: once the client has taken access_token from POST /token, no request
\* it sends with "Authorization: Bearer <access_token>" is rejected by the
\* middleware of the service it is sent to, whichever of the five it is and
\* however many requests were served in between.
C12_TokenAceptado ==
    (Responde /\ access_token # "" /\ request.auth = <<"Bearer " \o access_token>>)
        => middleware = "next"

\* With the token of POST /token and after an earlier answered question, a
\* request to micro_cuentas passed the middleware.
C12_Testigo ==
    /\ Responde
    /\ access_token # ""
    /\ memoria # SinMemoria
    /\ request.servicio = "cuentas"
    /\ request.ruta = "/respuesta"
    /\ request.auth = <<"Bearer " \o access_token>>
    /\ middleware = "next"

\* C13: the endpoint function of a protected path (/respuesta, /consulta)
\* runs only for requests whose Authorization header is exactly
\* "Bearer secreto123".
C13_SoloConToken == \A e \in ejecutado : e.auth = <<"Bearer secreto123">>

\* procesar_consulta and the responder it called both ran.
C13_Testigo ==
    /\ ConsultaProcesada
    /\ Cardinality(ejecutado) = 2

\* C14: for an authenticated POST /consulta the orchestrator issues at most
\* one downstream POST, exactly one when MICROS has the entry of the
\* question's category, and exactly one when the downstream call failed.
C14_UnSoloReenvio ==
    ConsultaProcesada =>
        /\ Len(reenvios) <= 1
        /\ (PrimeraCategoria(lower(request.pregunta)) <= Len(MICROS) => Len(reenvios) = 1)
        /\ (FalloAbajo => Len(reenvios) = 1)

\* The downstream POST raised, and the client got 502 after that one POST.
C14_Testigo ==
    /\ FalloAbajo
    /\ recibido.clase = "excepcion"
    /\ Len(reenvios) = 1
    /\ response.status = 502

\* The downstream POST was answered with a 2xx whose body is a JSON object.
ExitoAbajo ==
    /\ ConsultaProcesada
    /\ reenvios # <<>>
    /\ recibido.clase = "http"
    /\ recibido.status \in 200..299
    /\ recibido.forma = "objeto"

\* C15: when the downstream call succeeds with a JSON object, the client gets
\* 200 with an object whose only field is 'respuesta': the downstream body's
\* 'respuesta' unchanged, or "Sin respuesta" when that body has no such field.
C15_SoloRespuesta ==
    ExitoAbajo =>
        /\ response.status = 200
        /\ DOMAIN response.body = {"respuesta"}
        /\ response.body.respuesta =
              IF "respuesta" \in DOMAIN recibido.body
              THEN recibido.body.respuesta
              ELSE "Sin respuesta"

\* A downstream object with 'respuesta' and another field reached the client
\* as {"respuesta": ...} only.
C15_Testigo ==
    /\ ExitoAbajo
    /\ {"respuesta", "extra"} \subseteq DOMAIN recibido.body
    /\ response.body = [respuesta |-> recibido.body.respuesta]

Mayuscula ==
    [c \in {Minuscula[k] : k \in DOMAIN Minuscula} |->
        CHOOSE k \in DOMAIN Minuscula : Minuscula[k] = c]

\* The text with each character the table has replaced by its image.
RECURSIVE CambiarCaja(_, _)
CambiarCaja(texto, tabla) ==
    IF texto = "" THEN ""
    ELSE (IF Head(texto) \in DOMAIN tabla THEN tabla[Head(texto)] ELSE Head(texto))
            \o CambiarCaja(Tail(texto), tabla)

\* The question all in capitals and all in small letters: two questions that
\* differ only in letter case have the same two.
VariantesDeCaja(pregunta) ==
    {CambiarCaja(pregunta, Mayuscula), CambiarCaja(pregunta, Minuscula)}

\* C17: keyword matching does not depend on letter case: a responder gives
\* the question's answer to the same question in capitals and in small
\* letters, and the orchestrator forwards those to the base URL it forwards
\* the question to.
C17_SinDistinguirCaja ==
    /\ \A s \in Responders :
          Respondida(s) =>
              \A v \in VariantesDeCaja(request.pregunta) :
                  responder(s, v) = response.body.respuesta
    /\ (ConsultaProcesada /\ reenvios # <<>>) =>
          \A v \in VariantesDeCaja(request.pregunta) :
              /\ categoria(lower(v)) < Len(MICROS)
              /\ reenvios[1].url = MICROS[categoria(lower(v)) + 1] \o "/respuesta"

\* A question with an accented keyword in capitals got the keyword's answer.
C17_Testigo ==
    /\ Respondida("identidad")
    /\ Contains("CÓDIGO", request.pregunta)
    /\ ~Contains("dni", lower(request.pregunta))
    /\ ~Contains("nie", lower(request.pregunta))
    /\ response.body.respuesta = "Código verificado correctamente. Tu sesión es segura."

\* The text without its diacritical marks, in the letter case it has.
SinTildes(texto) == SinMn(NFD(texto))

\* The branch of responder each documented keyword of micro_cuentas belongs to.
GrupoDePalabraClave == <<1, 2, 3, 4, 5, 5, 6>>

\* Documented keyword n is in the text, and no documented keyword of another
\* branch is.
SoloPalabraClave(n, t) ==
    /\ Coincide(Grupo(keywords_soportadas[n], ""), t)
    /\ \A m \in 1..Len(keywords_soportadas) :
          GrupoDePalabraClave[m] # GrupoDePalabraClave[n]
              => ~Coincide(Grupo(keywords_soportadas[m], ""), t)

\* C18: micro_cuentas gives a question and the same question without its
\* diacritical marks the same answer, and each documented keyword from the
\* second on (tipo(s) de cuenta, requisito(s)/condicion(es), comision(es),
\* cambiar+cuenta, convertir+cuenta, plazo/apertura), when it is the only
\* keyword of the question, gets the answer of its branch, which is not the
\* default.
C18_SinDistinguirTildes ==
    Respondida("cuentas") =>
        /\ responder("cuentas", SinTildes(request.pregunta)) = response.body.respuesta
        /\ \A n \in 2..Len(keywords_soportadas) :
              SoloPalabraClave(n, normalize(request.pregunta)) =>
                  /\ response.body.respuesta = grupos_cuentas[GrupoDePalabraClave[n]].respuesta
                  /\ response.body.respuesta # por_defecto("cuentas")

\* A question whose only keyword is written with an accent got the answer
\* of the keyword's branch.
C18_Testigo ==
    /\ Respondida("cuentas")
    /\ SinTildes(request.pregunta) # request.pregunta
    /\ \E n \in 2..Len(keywords_soportadas) :
          /\ SoloPalabraClave(n, normalize(request.pregunta))
          /\ ~Coincide(Grupo(keywords_soportadas[n], ""), lower(request.pregunta))
          /\ response.body.respuesta = grupos_cuentas[GrupoDePalabraClave[n]].respuesta

\* C19: a question the orchestrator forwards to the responder of consultas,
\* cuentas or identidad because it has a routing keyword of that category
\* never gets that responder's default fallback.
C19_EnrutadaConRespuesta ==
    (/\ ExitoAbajo
     /\ PrimeraCategoria(lower(request.pregunta)) \in 1..3)
        => \A e \in EjecutadoAbajo(reenvios[1], recibido) :
               response.body.respuesta # por_defecto(e.servicio)

\* C20: the middleware lets a request to a path that starts with /token,
\* /docs or /openapi.json through whatever its header is, and a request to
\* any other path exactly when its header is "Bearer secreto123"; /respuesta
\* and /consulta are among the other paths.
C20_RutasPublicas ==
    Responde =>
        /\ (RutaPermitida(request.ruta) => middleware = "next")
        /\ (~RutaPermitida(request.ruta) =>
               (middleware = "next" <=> CabeceraValida(request.auth)))
        /\ ((request.ruta \in {"/respuesta", "/consulta"} /\ ~CabeceraValida(request.auth))
               => middleware = "raise401")

\* A request without header to a path that only starts with an allow-listed
\* one passed the middleware.
C20_Testigo ==
    /\ Responde
    /\ request.ruta \in {"/tokens", "/docs/x"}
    /\ request.auth = <<>>
    /\ middleware = "next"

\* procesar_consulta forwarded the question to one of the four responders,
\* MICROS being the four base URLs in the expected order.
ReenviadaAResponder ==
    /\ ConsultaProcesada
    /\ MICROS = <<URL_CONSULTAS, URL_CUENTAS, URL_IDENTIDAD, URL_IA>>
    /\ reenvios # <<>>

\* C21: a request the orchestrator proxies to one of the four responders is
\* posted to '/respuesta' with the header "Bearer secreto123" and is never
\* rejected by that responder's middleware: a reply that arrives is the 200
\* of the endpoint function responder, and the orchestrator answers 502 only
\* when no reply arrived.
C21_ReenvioNuncaRechazado ==
    ReenviadaAResponder =>
        /\ \E u \in {URL_CONSULTAS, URL_CUENTAS, URL_IDENTIDAD, URL_IA} :
              reenvios[1].url = u \o "/respuesta"
        /\ reenvios[1].auth = <<"Bearer secreto123">>
        /\ (recibido.clase = "http" =>
               /\ recibido.status = 200
               /\ EjecutadoAbajo(reenvios[1], recibido) # {})
        /\ (response.status = 502 => recibido.clase = "excepcion")

\* A proxied question was answered by the endpoint function of micro_ia.
C21_Testigo ==
    /\ ReenviadaAResponder
    /\ recibido.clase = "http"
    /\ \E e \in EjecutadoAbajo(reenvios[1], recibido) : e.servicio = "ia"
    /\ response.status = 200

\* A file generar_tests has to handle: a .py file that is neither __init__.py
\* nor a test_*.py.
EsFuente(a) ==
    /\ EndsWith(a, ".py")
    /\ name(a) # "__init__.py"
    /\ SubSeq(name(a), 1, 5) # "test_"

SinClave == OPENAI_API_KEY = ""

SinConexion == \E n \in 1..Len(reportes) : reportes[n].aviso = "Error al conectar con OpenAI"

\* The run of generar_tests is over: it returned, or an exception left it.
Terminado == fase \in {"return", "excepcion"}

\* The module's handling failed in one of the ways generar_tests_para_modulo
\* guards against: the OpenAI call raised, or the test file could not be
\* written (its directory could not be made, or the file could not be opened
\* or written).
FalloDeModulo(suceso) == suceso \in {"openai falla", "mkdir falla", "escritura falla"}

\* C22: generar_tests handles every .py file under src/ that is neither
\* __init__.py nor test_*.py exactly once and in list order; a module whose
\* OpenAI call raises or whose test file cannot be written is reported and
\* the remaining modules are still handled; a module without top-level
\* function or class gets no OpenAI call; and without the API key or without
\* connection no module is handled and no test file is written.
C22_TodosLosModulos ==
    LET fuentes == SelectSeq(arbol, EsFuente)
    IN  /\ [k \in 1..Len(procesados) |-> procesados[k].ruta]
              = SubSeq(fuentes, 1, Len(procesados))
        /\ (Terminado /\ ~SinClave /\ ~SinConexion) => Len(procesados) = Len(fuentes)
        /\ \A k \in 1..Len(procesados) :
              FalloDeModulo(procesados[k].suceso) =>
                  \E n \in 1..Len(reportes) :
                      /\ reportes[n].ruta = procesados[k].ruta
                      /\ reportes[n].aviso \in {"Error al llamar a OpenAI", "No se pudo escribir"}
        /\ \A k \in 1..Len(procesados) :
              procesados[k].suceso = "sin definiciones" =>
                  \A n \in 1..Len(llamadas) : llamadas[n] # procesados[k].ruta
        /\ (SinClave \/ SinConexion) =>
              (procesados = <<>> /\ llamadas = <<>> /\ escritos = {})

\* C23: log_test_info redirects the streams only during a test: outside a
\* test, after any number of tests passed or failed, sys.stdout and
\* sys.stderr are the objects they were before the first test, and during a
\* test the fixture holds those objects to put them back.
C23_FlujosRestaurados ==
    /\ fixture = "fuera" =>
          (sys_stdout = al_empezar[1] /\ sys_stderr = al_empezar[2])
    /\ fixture = "yield" =>
          (old_stdout = al_empezar[1] /\ old_stderr = al_empezar[2])

\* After two tests, the last of which failed, the streams are the ones of
\* before the session.
C23_Testigo ==
    /\ fixture = "fuera"
    /\ terminadas >= 2
    /\ registro[Len(registro)].level = "ERROR"
    /\ sys_stdout = al_empezar[1]
    /\ sys_stderr = al_empezar[2]

====
